---- MODULE Spec2Model ----
(***************************************************************************)
(* The two course notebooks, run cell by cell in one kernel each:          *)
(*   "classifier"  src/practical-L5-L6/autodiff_nn_basics.ipynb            *)
(*   "vae"         src/unnamed/part_000                                    *)
(* A cell is compiled as a whole before any of its statements runs; a cell *)
(* that does not compile binds no name.  A statement that reads an unbound *)
(* name raises NameError and ends its cell.  Values are exact decimals     *)
(* scaled by 10^4 (the four digits the notebook prints).                   *)
(***************************************************************************)
EXTENDS Integers, Sequences, FiniteSets, TLC

\* ------------------------------------------------------------------ bounds
\* how often the second backward cell is evaluated at most
MaxBackward == 3
\* the initial parameter values drawn by the random initialisation: 0..MaxParam
MaxParam == 2
\* the length of the latent vectors handed to the vae's functions (20 in the code)
LatentDim == 2

\* -------------------------------------------------------- program constants
\* range(1, 5)
FirstEpoch == 1
StopEpoch == 5
\* DataLoader(..., batch_size=64)
BatchSize == 64
\* "after every 100 batches"
LogInterval == 100

Notebooks == {"classifier", "vae"}

\* sizes of the datasets handed to the loaders (60,000 is MNIST's training set)
TrainSizes == {6400, 60000}
TestSizes == {64, 10000}

VARIABLES
    notebook,   \* the notebook being run
    trainN,     \* len(train_dataset)
    testN,      \* len(test_dataset)
    pc,         \* the next cell to execute
    defined,    \* the names bound in the kernel's namespace
    failed,     \* the cells that raised, as <<cell, exception>>
    xgrad,      \* x.grad of the autodiff cells: <<>> is None
    nBackward,  \* evaluations of y = f(x); y.backward() since x was created
    created,    \* how often the model and the optimizer were constructed
    st,         \* the model, the optimizer and the log of what ran on them
    epoch,      \* the loop variable of the epoch loop
    it,         \* the next value of range(1, 5)
    loopPc,     \* the position inside the epoch loop
    loopError,  \* the exception that left the epoch loop, "none" if none
    calls,      \* the train and test calls the loop entered, in order
    call        \* the last direct call of a function of the vae notebook

vars == <<notebook, trainN, testN, pc, defined, failed, xgrad, nBackward,
          created, st, epoch, it, loopPc, loopError, calls, call>>

\* ------------------------------------------------------------------ cells
\* the code cells of a notebook that the training run consists of, in order
Cells(nb) ==
    IF nb = "classifier"
    THEN <<"grad1", "grad2", "net", "optim", "defs", "loop", "end">>
    ELSE <<"net", "lossfn", "optim", "defs", "loop", "end">>

\* whether Python compiles the cell: a def or a for whose body holds only
\* comments is an IndentationError
Compiles(nb, c) ==
    ~(nb = "vae" /\ c \in {"net", "lossfn", "defs"})

\* the cell after c
NextCell(nb, c) ==
    LET i == CHOOSE j \in 1..Len(Cells(nb)) : Cells(nb)[j] = c
    IN  Cells(nb)[i + 1]

\* ----------------------------------------------------- automatic differentiation
\* f'(2,3,4) = [4.6063, -9.1203, 2.3031]
GradF == <<46063, -91203, 23031>>

\* the mutant of Backward: .grad is overwritten
BackwardOverwrite(grad, g) == g

\* y.backward(): the gradient is accumulated in the leaf's .grad
Backward(grad, g) ==
    IF grad = <<>> THEN g ELSE [i \in 1..Len(g) |-> grad[i] + g[i]]

\* --------------------------------------------------------- model and optimizer
\* the state train and test work on before anything is constructed
NoState == [training |-> TRUE, params |-> <<>>, opt |-> <<>>, log |-> <<>>]

\* model = Net(): freshly initialised parameters, in training mode
NewModel(s, p) == [s EXCEPT !.params = <<p>>, !.training = TRUE]

\* optimizer = optim.SGD(model.parameters(), ...): no momentum yet
NewOptimizer(s) == [s EXCEPT !.opt = <<0>>]

\* the number of batches a DataLoader of batch_size 64 yields for n samples
NumBatches(n) == (n + BatchSize - 1) \div BatchSize

\* one entry of the log: inside fn, in epoch e, op ran on n samples
Entry(fn, op, e, n) == [fn |-> fn, op |-> op, epoch |-> e, n |-> n]

\* F.dropout(x, training=self.training) in Net.forward: active in training mode
DropoutActive(s) == s.training

\* the mutant of Train: model.train() is left out
TrainSkip(s, e) ==
    [s EXCEPT !.log = Append(@, Entry("train", "forward", e, 0))]

\* train(epoch)
Train(s, e) ==
    [s EXCEPT !.training = TRUE,
              !.log = Append(@, Entry("train", "model.train", e, 0))]

\* the mutant of Test: test takes an optimizer step
TestStep(s, e) ==
    [s EXCEPT !.training = FALSE,
              !.params = IF @ = <<>> THEN @ ELSE <<@[1] + 1>>,
              !.opt = IF @ = <<>> THEN @ ELSE <<@[1] + 1>>,
              !.log = Append(Append(@, Entry("test", "model.eval", e, 0)),
                             Entry("test", "optimizer.step", e, 0))]

\* test()
Test(s, e) ==
    [s EXCEPT !.training = FALSE,
              !.log = Append(@, Entry("test", "model.eval", e, 0))]

\* train(epoch) of the vae, up to its for statement
VaeTrain(s, e) ==
    [s EXCEPT !.training = TRUE,
              !.log = Append(Append(@, Entry("train", "model.train", e, 0)),
                             Entry("train", "train_loss = 0", e, 0))]

\* test(epoch) of the vae, up to its for statement
VaeTest(s, e) ==
    [s EXCEPT !.training = FALSE,
              !.log = Append(Append(@, Entry("test", "model.eval", e, 0)),
                             Entry("test", "test_loss = 0", e, 0))]

\* the mutant of OnRaise: the exception is swallowed and the loop goes on
OnRaiseContinue(next) == next

\* an exception raised in the body of the for loop: nothing catches it
OnRaise(next) == "aborted"

\* ------------------------------------------------------------------- Init
Init ==
    /\ notebook \in Notebooks
    /\ trainN \in TrainSizes
    /\ testN \in TestSizes
    /\ pc = Cells(notebook)[1]
    /\ defined = {"train_dataset", "test_dataset"}
    /\ failed = {}
    /\ xgrad = <<>>
    /\ nBackward = 0
    /\ created = [model |-> 0, optimizer |-> 0]
    /\ st = NoState
    /\ epoch = 0
    /\ it = FirstEpoch
    /\ loopPc = "idle"
    /\ loopError = "none"
    /\ calls = <<>>
    /\ call = [fn |-> "none", status |-> "none", value |-> <<>>, x |-> <<>>,
               mu |-> <<>>, logvar |-> <<>>, eps |-> <<>>]

Loop == <<epoch, it, loopPc, loopError, calls>>
Inputs == <<notebook, trainN, testN>>

\* ------------------------------------------------------------------ cells
\* x = torch.tensor([2.,3,4], requires_grad=True); y = f(x); y.backward()
GradCell1 ==
    /\ pc = "grad1"
    /\ xgrad' = Backward(<<>>, GradF)
    /\ nBackward' = 1
    /\ pc' = NextCell(notebook, pc)
    /\ UNCHANGED <<Inputs, defined, failed, created, st, Loop, call>>

\* y = f(x); y.backward(): the cell can be evaluated again and again
GradCell2 ==
    /\ pc = "grad2"
    /\ nBackward < 1 + MaxBackward
    /\ xgrad' = Backward(xgrad, GradF)
    /\ nBackward' = nBackward + 1
    /\ UNCHANGED <<Inputs, pc, defined, failed, created, st, Loop, call>>

\* the next cell is taken up after at least one evaluation of the second cell
GradDone ==
    /\ pc = "grad2"
    /\ nBackward >= 2
    /\ pc' = NextCell(notebook, pc)
    /\ UNCHANGED <<Inputs, defined, failed, xgrad, nBackward, created, st,
                   Loop, call>>

\* class Net / class VAE ...; model = Net() / model = VAE()
NetCell ==
    /\ pc = "net"
    /\ IF Compiles(notebook, pc)
       THEN /\ \E p \in 0..MaxParam : st' = NewModel(st, p)
            /\ defined' = defined \cup {"model"}
            /\ created' = [created EXCEPT !.model = @ + 1]
            /\ failed' = failed
       ELSE /\ failed' = failed \cup {<<pc, "IndentationError">>}
            /\ UNCHANGED <<st, defined, created>>
    /\ pc' = NextCell(notebook, pc)
    /\ UNCHANGED <<Inputs, xgrad, nBackward, Loop, call>>

\* def loss_function(recon, x, mu, logvar): ...
LossCell ==
    /\ pc = "lossfn"
    /\ IF Compiles(notebook, pc)
       THEN /\ defined' = defined \cup {"loss_function"}
            /\ failed' = failed
       ELSE /\ failed' = failed \cup {<<pc, "IndentationError">>}
            /\ defined' = defined
    /\ pc' = NextCell(notebook, pc)
    /\ UNCHANGED <<Inputs, xgrad, nBackward, created, st, Loop, call>>

\* optimizer = ...(model.parameters(), ...); train_loader = ...; test_loader = ...
OptimCell ==
    /\ pc = "optim"
    /\ IF "model" \in defined
       THEN /\ st' = NewOptimizer(st)
            /\ defined' = defined \cup {"optimizer", "train_loader", "test_loader"}
            /\ created' = [created EXCEPT !.optimizer = @ + 1]
            /\ failed' = failed
       ELSE /\ failed' = failed \cup {<<pc, "NameError">>}
            /\ UNCHANGED <<st, defined, created>>
    /\ pc' = NextCell(notebook, pc)
    /\ UNCHANGED <<Inputs, xgrad, nBackward, Loop, call>>

\* def train(epoch): ...   def test(...): ...
DefsCell ==
    /\ pc = "defs"
    /\ IF Compiles(notebook, pc)
       THEN /\ defined' = defined \cup {"train", "test"}
            /\ failed' = failed
       ELSE /\ failed' = failed \cup {<<pc, "IndentationError">>}
            /\ defined' = defined
    /\ pc' = NextCell(notebook, pc)
    /\ UNCHANGED <<Inputs, xgrad, nBackward, created, st, Loop, call>>

\* -------------------------------------------------------------- epoch loop
\* for epoch in range(1, 5): the next value, or the end of the loop
ForNext ==
    /\ pc = "loop"
    /\ loopPc \in {"idle", "next"}
    /\ IF it < StopEpoch
       THEN /\ epoch' = it
            /\ it' = it + 1
            /\ loopPc' = "train"
            /\ pc' = pc
       ELSE /\ loopPc' = "finished"
            /\ pc' = NextCell(notebook, pc)
            /\ UNCHANGED <<epoch, it>>
    /\ UNCHANGED <<Inputs, defined, failed, xgrad, nBackward, created, st,
                   loopError, calls, call>>

\* train(epoch)
CallTrain ==
    /\ pc = "loop"
    /\ loopPc = "train"
    /\ IF "train" \in defined
       THEN /\ st' = IF notebook = "vae" THEN VaeTrain(st, epoch)
                       ELSE Train(st, epoch)
            /\ calls' = Append(calls, <<"train", epoch>>)
            /\ loopPc' = "test"
            /\ UNCHANGED <<loopError, failed, pc>>
       ELSE /\ loopError' = "NameError"
            /\ loopPc' = OnRaise("test")
            /\ failed' = failed \cup {<<pc, "NameError">>}
            /\ pc' = IF loopPc' = "aborted" THEN NextCell(notebook, pc) ELSE pc
            /\ UNCHANGED <<st, calls>>
    /\ UNCHANGED <<Inputs, defined, xgrad, nBackward, created, epoch, it, call>>

\* test() / test(epoch)
CallTest ==
    /\ pc = "loop"
    /\ loopPc = "test"
    /\ IF "test" \in defined
       THEN /\ st' = IF notebook = "vae" THEN VaeTest(st, epoch)
                       ELSE Test(st, epoch)
            /\ calls' = Append(calls, <<"test", epoch>>)
            /\ loopPc' = "next"
            /\ UNCHANGED <<loopError, failed, pc>>
       ELSE /\ loopError' = "NameError"
            /\ loopPc' = OnRaise("next")
            /\ failed' = failed \cup {<<pc, "NameError">>}
            /\ pc' = IF loopPc' = "aborted" THEN NextCell(notebook, pc) ELSE pc
            /\ UNCHANGED <<st, calls>>
    /\ UNCHANGED <<Inputs, defined, xgrad, nBackward, created, epoch, it, call>>

\* ------------------------------------------------ the vae's functions, called
\* the latent vectors tried
Vecs == [1..LatentDim -> -1..1]

\* a call f(...) of a function whose def holds no return statement: the name is
\* looked up first, and a body without return gives None
CallOf(names, needs) ==
    IF needs \subseteq names
    THEN [status |-> "ok", value |-> <<>>]
    ELSE [status |-> "NameError", value |-> <<>>]

\* model.reparameterize(mu, logvar), with eps the noise it would draw
CallReparameterize ==
    /\ notebook = "vae"
    /\ pc = "end"
    /\ call.fn = "none"
    /\ \E mu \in Vecs, logvar \in Vecs, eps \in Vecs :
         call' = [fn |-> "reparameterize", x |-> <<>>, mu |-> mu,
                  logvar |-> logvar, eps |-> eps] @@ CallOf(defined, {"model"})
    /\ UNCHANGED <<Inputs, pc, defined, failed, xgrad, nBackward, created, st,
                   Loop>>

\* loss_function(recon, x, mu, logvar)
CallLossFunction ==
    /\ notebook = "vae"
    /\ pc = "end"
    /\ call.fn = "none"
    /\ \E mu \in Vecs, logvar \in Vecs :
         call' = [fn |-> "loss_function", x |-> <<>>, mu |-> mu,
                  logvar |-> logvar, eps |-> <<>>]
                 @@ CallOf(defined, {"loss_function"})
    /\ UNCHANGED <<Inputs, pc, defined, failed, xgrad, nBackward, created, st,
                   Loop>>

\* the batch sizes tried: a full batch of 64, the last batches of 60000 and of
\* 10000 samples, and a single sample
BatchSizes == {1, 16, 32, BatchSize}

\* model(x) of the vae for a batch x of flattened images, shape (B, 784), with
\* eps the noise reparameterize would draw
CallForward ==
    /\ notebook = "vae"
    /\ pc = "end"
    /\ call.fn = "none"
    /\ \E b \in BatchSizes, eps \in Vecs :
         call' = [fn |-> "forward", x |-> <<b, 784>>, mu |-> <<>>,
                  logvar |-> <<>>, eps |-> eps] @@ CallOf(defined, {"model"})
    /\ UNCHANGED <<Inputs, pc, defined, failed, xgrad, nBackward, created, st,
                   Loop>>

\* ------------------------------------------------- Net.forward, on shapes
\* a shape is the tuple of a tensor's sizes; <<>> stands for the RuntimeError
\* of an operation whose input does not fit

\* the number of elements of a tensor of shape x
RECURSIVE Numel(_)
Numel(x) == IF x = <<>> THEN 1 ELSE Head(x) * Numel(Tail(x))

\* nn.Conv2d(cin, cout, kernel_size=k): no padding, stride 1
Conv2d(x, cin, cout, k) ==
    IF Len(x) = 4 /\ x[2] = cin /\ x[3] >= k /\ x[4] >= k
    THEN <<x[1], cout, x[3] - k + 1, x[4] - k + 1>>
    ELSE <<>>

\* the mutant of MaxPool2d: no pooling
MaxPoolSkip(x, k) == x

\* F.max_pool2d(x, k): windows of k x k, stride k, the rest dropped
MaxPool2d(x, k) ==
    IF Len(x) = 4 /\ x[3] >= k /\ x[4] >= k
    THEN <<x[1], x[2], x[3] \div k, x[4] \div k>>
    ELSE <<>>

\* x.view(-1, cols): the rows are whatever the elements fill
View(x, cols) ==
    IF x # <<>> /\ Numel(x) % cols = 0
    THEN <<Numel(x) \div cols, cols>>
    ELSE <<>>

\* nn.Linear(in, out), applied to the last dimension
Linear(x, in, out) ==
    IF x # <<>> /\ x[Len(x)] = in THEN [x EXCEPT ![Len(x)] = out] ELSE <<>>

\* Net.forward(x): the shapes after the first stage, the second stage, the
\* view, fc1 (relu and dropout keep the shape) and fc2
NetForward(x) ==
    LET a == MaxPool2d(Conv2d(x, 1, 10, 5), 2)
        b == MaxPool2d(Conv2d(a, 10, 20, 5), 2)
        c == View(b, 320)
        d == Linear(c, 320, 50)
        o == Linear(d, 50, 10)
    IN  <<a, b, c, d, o>>

\* model(x) of the classifier for a batch of b single-channel 28x28 images
CallNetForward ==
    /\ notebook = "classifier"
    /\ pc = "end"
    /\ call.fn = "none"
    /\ \E b \in BatchSizes :
         LET x == <<b, 1, 28, 28>>
             shapes == NetForward(x)
         IN  call' = [fn |-> "Net.forward", x |-> x, mu |-> <<>>,
                      logvar |-> <<>>, eps |-> <<>>,
                      status |-> IF "model" \notin defined THEN "NameError"
                                 ELSE IF <<>> \in {shapes[i] : i \in 1..5}
                                      THEN "RuntimeError" ELSE "ok",
                      value |-> shapes]
    /\ UNCHANGED <<Inputs, pc, defined, failed, xgrad, nBackward, created, st,
                   Loop>>

Next ==
    \/ GradCell1
    \/ GradCell2
    \/ GradDone
    \/ NetCell
    \/ LossCell
    \/ OptimCell
    \/ DefsCell
    \/ ForNext
    \/ CallTrain
    \/ CallTest
    \/ CallReparameterize
    \/ CallLossFunction
    \/ CallForward
    \/ CallNetForward

Spec == Init /\ [][Next]_vars

\* ------------------------------------------------------------------ claims
\* the entries of the log written inside fn in epoch e by one of ops
Entries(fn, e, ops) ==
    SelectSeq(st.log, LAMBDA r : r.fn = fn /\ r.epoch = e /\ r.op \in ops)

\* the epochs for which the loop entered fn and fn returned
Returned(fn) == {calls[i][2] : i \in {j \in 1..Len(calls) : calls[j][1] = fn}}

\* the sum of the sample counts of the entries of a log
RECURSIVE Samples(_)
Samples(l) == IF l = <<>> THEN 0 ELSE Head(l).n + Samples(Tail(l))

\* what a batch of train consists of, in order
BatchOps == <<"forward", "loss", "backward", "optimizer.step">>

\* C1: when train(epoch) has returned, it has performed forward pass, loss,
\* gradient and one optimizer step, in this order, for every mini-batch of
\* train_loader: as many optimizer steps as the loader has batches.
C1_OneStepPerBatch ==
    \A e \in Returned("train") :
        LET ops == Entries("train", e, {BatchOps[k] : k \in 1..4})
        IN  /\ Len(Entries("train", e, {"optimizer.step"})) = NumBatches(trainN)
            /\ Len(ops) = 4 * NumBatches(trainN)
            /\ \A j \in 1..Len(ops) : ops[j].op = BatchOps[((j - 1) % 4) + 1]

\* C2: a call of test leaves the model parameters and the optimizer state as
\* they were when it was called, and runs no gradient computation and no
\* optimizer step.
C2_TestLeavesParameters ==
    [][loopPc = "test" /\ loopPc' # "test"
         => /\ st'.params = st.params
            /\ st'.opt = st.opt
            /\ \A i \in (Len(st.log) + 1)..Len(st'.log) :
                   st'.log[i].op \notin {"backward", "optimizer.step"}]_vars

\* C2's case: test was called on a constructed model and optimizer, and returned
C2_TestReturned ==
    /\ calls # <<>>
    /\ calls[Len(calls)][1] = "test"
    /\ st.params # <<>>
    /\ st.opt # <<>>
    /\ loopPc = "next"

\* train(1), test(1), ..., train(4), test(4)
ExpectedCalls ==
    [i \in 1..(2 * (StopEpoch - FirstEpoch)) |->
        <<IF i % 2 = 1 THEN "train" ELSE "test", FirstEpoch + ((i - 1) \div 2)>>]

C6_GradAccumulates ==
    nBackward > 0 => xgrad = [i \in 1..Len(GradF) |-> nBackward * GradF[i]]

\* C6's case: the second cell was evaluated twice after the first
C6_ThreeBackwards == nBackward = 3 /\ xgrad # <<>>

\* C7: when test has returned, it has run every one of the testN samples of
\* the test dataset through the model exactly once and printed one report of
\* the loss and the accuracy over all testN samples.
C7_TestReportsWholeDataset ==
    \A e \in Returned("test") :
        /\ Len(Entries("test", e, {"forward"})) = NumBatches(testN)
        /\ Samples(Entries("test", e, {"forward"})) = testN
        /\ Len(Entries("test", e, {"print"})) = 1
        /\ Samples(Entries("test", e, {"print"})) = testN

\* C8: when train(epoch) has returned, it has printed one report per full 100
\* batches of train_loader, each carrying that epoch number.
C8_ReportEvery100Batches ==
    \A e \in Returned("train") :
        Len(Entries("train", e, {"print"})) = NumBatches(trainN) \div LogInterval

\* the elementwise sum of two vectors
VecAdd(a, b) == [i \in 1..Len(a) |-> a[i] + b[i]]
\* the zero vector
Zero == [i \in 1..LatentDim |-> 0]

\* C9: reparameterize(mu, logvar) returns mu + exp(logvar/2) * eps: mu when
\* the noise eps is zero, and mu + eps when logvar is zero.
C9_ReparameterizeSample ==
    call.fn = "reparameterize"
      => /\ call.status = "ok"
         /\ call.eps = Zero => call.value = call.mu
         /\ call.logvar = Zero => call.value = VecAdd(call.mu, call.eps)

\* C10: the KL term loss_function computes is zero when mu = 0 and logvar = 0
\* in every latent dimension.
C10_KLZeroAtPrior ==
    call.fn = "loss_function" /\ call.mu = Zero /\ call.logvar = Zero
      => call.status = "ok" /\ call.value = <<0>>

\* C11: the reconstruction VAE.forward returns for a batch x has the shape of x.
C11_ReconShapeIsInputShape ==
    call.fn = "forward" => call.status = "ok" /\ call.value = call.x

\* C15: Net.forward maps B images of 1 x 28 x 28 to B x 10 logits; after the
\* two stages every sample has 20 x 4 x 4 = 320 features, so the view has
\* exactly B rows, one per sample.
C15_NetForwardShapes ==
    call.fn = "Net.forward"
      => /\ call.status = "ok"
         /\ call.value[2] = <<call.x[1], 20, 4, 4>>
         /\ call.value[3] = <<call.x[1], 320>>
         /\ call.value[5] = <<call.x[1], 10>>

\* C15's case: forward ran on a last batch of 16 images
C15_ForwardOnSmallBatch ==
    call.fn = "Net.forward" /\ call.x[1] = 16 /\ call.status = "ok"

\* the entries of the log written inside fn in epoch e
CallEntries(fn, e) == SelectSeq(st.log, LAMBDA r : r.fn = fn /\ r.epoch = e)

\* C14: every train call starts by putting the model in training mode and
\* every test call by putting it in evaluation mode, and only they change the
\* mode: from train's return to the test call the dropout of Net.forward is
\* active, from test's return until the next train call it is inactive.
C14_ModeFollowsTrainAndTest ==
    [][/\ st'.training # st.training => pc = "loop" /\ loopPc \in {"train", "test"}
       /\ \A e \in Returned("train")' : CallEntries("train", e)'[1].op = "model.train"
       /\ \A e \in Returned("test")' : CallEntries("test", e)'[1].op = "model.eval"
       /\ loopPc' = "test" => DropoutActive(st')
       /\ loopPc' \in {"train", "next", "finished"} /\ calls' # <<>>
            => ~DropoutActive(st')]_vars

\* C14's case: test(1) set evaluation mode and train(2) has put the model back
\* in training mode
C14_SecondTrainReturned ==
    /\ loopPc = "test"
    /\ epoch = FirstEpoch + 1
    /\ <<"test", FirstEpoch>> \in {calls[i] : i \in 1..Len(calls)}
    /\ DropoutActive(st)

====
